---------------------------- MODULE Spec2Model ----------------------------
(***************************************************************************)
(* Model of the chat backend of Deep-research-agent.                       *)
(*                                                                         *)
(*   src/main.py        the HTTP handlers over the Prisma store: POST      *)
(*                      /chat (handle_chat_message), the session and user  *)
(*                      endpoints.                                         *)
(*   src/agent_core.py  the tools the agents call (research_topic,         *)
(*                      deep_research, get_financial_data,                 *)
(*                      get_current_time_in_country).                      *)
(*                                                                         *)
(* Every handler is an async function: it runs without interruption up to  *)
(* its next `await`, and each awaited store call is one atomic operation   *)
(* of the database.  POST /chat is therefore a sequence of steps, one per  *)
(* awaited call, and the steps of concurrent requests interleave.  The     *)
(* other handlers await a single store call and are single actions.        *)
(*                                                                         *)
(* Assumptions about code that is not in the repository:                   *)
(*   - the Prisma schema: User.email and ChatSession.session_id are        *)
(*     unique (both are used with find_unique), a create that repeats a    *)
(*     unique key raises, the column defaults of User are those of         *)
(*     UserModel, ChatSession.created_at defaults to the time of the       *)
(*     insert and ChatSession.user_id is a plain column (no cascade);      *)
(*   - prisma update(where=unique) on a missing record returns None and    *)
(*     writes nothing; update_many/delete_many return the affected count;  *)
(*   - uuid.uuid4() and the storage-assigned ids are fresh;                *)
(*   - two readings of the clock differ, the later being the greater (no   *)
(*     two rows share a timestamp);                                        *)
(*   - database and network faults other than a unique-key conflict are    *)
(*     left out, except in the notification step of POST /chat, whose      *)
(*     calls may raise: its try/except is there for them.                  *)
(***************************************************************************)
EXTENDS Integers, Sequences, FiniteSets, TLC

\* ------------------------------------------------------------------ bounds

\* number of POST /chat requests issued in a behaviour
NumReq == 2
\* number of calls of the session and user endpoints in a behaviour
MaxAdminOps == 1

Reqs == 1 .. NumReq

VARIABLES
    users,       \* the User table: storage id -> record
    sessions,    \* the ChatSession table: storage id -> record
    nUser,       \* storage ids handed out for users so far
    nSession,    \* storage ids handed out for sessions so far
    nUuid,       \* uuid4 values drawn for session ids so far
    now,         \* the clock
    pc,          \* per request: the await it is suspended at
    chat_request,\* per request: the ChatRequest body
    user_id,     \* per request: local user_id
    session_id,  \* per request: local session_id
    session,     \* per request: local session (the record as read)
    notifs,      \* per request: local notifs
    history,     \* per request: local history
    response,    \* per request: status code and body of the answer
    adminOps,    \* calls of the session/user endpoints so far
    last,        \* the last answer of a session/user endpoint
    toolCall,    \* the last tool invocation: the tool, its arguments, its environment
    providerArgs,\* the arguments the research provider received in it
    toolResult   \* how it ended: the value returned, or the exception raised

chatVars == <<pc, chat_request, user_id, session_id, session, notifs, history, response>>
storeVars == <<users, sessions, nUser, nSession, nUuid, now>>
adminVars == <<adminOps, last>>
toolVars == <<toolCall, providerArgs, toolResult>>
vars == <<storeVars, chatVars, adminVars, toolVars>>


\* ------------------------------------------------------------- identifiers

\* Python's None as a user_id or session_id
NoId == <<"none", 0>>
\* the storage id of the n-th user created
UserId(n) == <<"user", n>>
\* a user_id a client sends that no user ever has
BogusUser == <<"user", 0>>
\* the session ids clients make up themselves
ClientSids == {<<"client", 1>>}
\* the n-th value of str(uuid.uuid4())
Uuid(n) == <<"uuid", n>>

\* ---------------------------------------------------------------- messages

\* a content is <<text, n>>: the text, and the request it belongs to
SeedMessage == [role |-> "system", content |-> <<"I am Deep Search Agent!", 0>>]
\* the message of request p, and the agent's reply to it
UserMessage(p) == [role |-> "user", content |-> <<"message", p>>]
AssistantMessage(p) == [role |-> "assistant", content |-> <<"reply", p>>]

\* --------------------------------------------------------------- passwords

\* pwd_context.hash: a plaintext is <<text, n>>, its bcrypt hash <<"$2b$", text, n>>
Hash(plain) == <<"$2b$">> \o plain
IsHash(pw) == Len(pw) = 3 /\ pw[1] = "$2b$"
Plaintexts == {<<"pw", 1>>, <<"pw", 2>>}
\* uuid.uuid4().hex, the plaintext of an anonymous user's password
AnonPlain(n) == <<"hex", n>>

\* ------------------------------------------------------------------- store

\* the clock readings a call that reads the clock may get: time has passed
\* since the last reading
ClockReadings == {now + 1}

\* a User row with the column defaults, as prisma.user.create(data) makes it
NewUser(email, password, t) ==
    [email |-> email, password |-> password, isSubscribed |-> FALSE,
     subscription |-> "{}", freePlanUsage |-> "{}", role |-> "admin",
     agentSessions |-> << >>, createdAt |-> t, updatedAt |-> t,
     paymentStatus |-> "inactive", plan |-> "free", notifications |-> << >>]

UserFields == DOMAIN NewUser(<<"e", 1>>, <<"pw", 1>>, 0)

\* an email is <<text, n>>; f"anon_{uuid.uuid4().hex}@example.com"
AnonEmail(n) == <<"anon", n>>

EmailTaken(email) == \E u \in DOMAIN users : users[u].email = email

\* prisma.chatsession.find_unique(where={"session_id": sid}): the storage ids found
SessionsWithId(sid) == {r \in DOMAIN sessions : sessions[r].session_id = sid}

\* the local copy of a ChatSession row; id 0 stands for None
NoSession == [id |-> 0, session_id |-> NoId, user_id |-> NoId, history |-> << >>]
Row(r) == [id |-> r, session_id |-> sessions[r].session_id,
           user_id |-> sessions[r].user_id, history |-> sessions[r].history]

\* mutant: find_first without the order, any session of the user
AnySessionOf(uid) == {r \in DOMAIN sessions : sessions[r].user_id = uid}

\* prisma.chatsession.find_first(where={"user_id": uid}, order={"created_at": "desc"})
LastSessionsOf(uid) ==
    {r \in DOMAIN sessions :
        /\ sessions[r].user_id = uid
        /\ \A r2 \in DOMAIN sessions :
              sessions[r2].user_id = uid => sessions[r2].created_at <= sessions[r].created_at}

\* f with the entry k |-> v added
Put(f, k, v) == [x \in DOMAIN f \cup {k} |-> IF x = k THEN v ELSE f[x]]
\* f without the keys in ks
Drop(f, ks) == [x \in DOMAIN f \ ks |-> f[x]]


\* --------------------------------------------------------------- POST /chat

\* What a client may send: no id, an id it made up, or one it has seen.  The
\* session ids in the store are listed by GET /chathistories.  A user id is
\* storage-assigned and no endpoint lists users: the id of an anonymous user is
\* known to nobody until the request that created it has returned it (step 8).
SessionIdInputs == {NoId} \cup ClientSids \cup {sessions[r].session_id : r \in DOMAIN sessions}
Unreturned ==
    {user_id[p] : p \in {q \in Reqs : /\ pc[q] \notin {"idle", "create_anon"}
                                       /\ chat_request[q].user_id # user_id[q]
                                       /\ response[q] # 200}}
UserIdInputs == {NoId, BogusUser} \cup (DOMAIN users \ Unreturned)

Goto(p, label) == pc' = [pc EXCEPT ![p] = label]
Respond(p, code) == response' = [response EXCEPT ![p] = code]

\* after the user is resolved: step 3 awaits find_first only without a session_id
AfterUser(p) == IF chat_request[p].session_id = NoId THEN "find_last" ELSE "find_session"

\* the request arrives; 1) Verify provided user_id exists
ChatVerifyUser(p) ==
    /\ pc[p] = "idle"
    /\ \E sid \in SessionIdInputs, uid \in UserIdInputs :
          /\ chat_request' = [chat_request EXCEPT ![p] = [session_id |-> sid, user_id |-> uid]]
          /\ session_id' = [session_id EXCEPT ![p] = sid]
          /\ IF uid # NoId /\ uid \in DOMAIN users
                THEN /\ user_id' = [user_id EXCEPT ![p] = uid]
                     /\ Goto(p, IF sid = NoId THEN "find_last" ELSE "find_session")
                ELSE /\ user_id' = [user_id EXCEPT ![p] = NoId]
                     /\ Goto(p, "create_anon")
    /\ UNCHANGED <<storeVars, session, notifs, history, response, adminVars, toolVars>>

\* 2) Auto-create anon user if none
ChatCreateAnon(p) ==
    /\ pc[p] = "create_anon"
    /\ \E t \in ClockReadings :
          /\ users' = Put(users, UserId(nUser + 1),
                          NewUser(AnonEmail(nUser + 1),
                                  Hash(AnonPlain(nUser + 1)), t))
          /\ now' = t
    /\ nUser' = nUser + 1
    /\ user_id' = [user_id EXCEPT ![p] = UserId(nUser + 1)]
    /\ Goto(p, AfterUser(p))
    /\ UNCHANGED <<sessions, nSession, nUuid, chat_request, session_id, session, notifs,
                   history, response, adminVars, toolVars>>

\* mutant: the uuid drawn last is handed out again
StaleSessionId == Uuid(nUuid)

\* str(uuid.uuid4())
FreshSessionId == Uuid(nUuid + 1)

\* 3) Reuse last session if no session_id supplied
ChatFindLast(p) ==
    /\ pc[p] = "find_last"
    /\ IF LastSessionsOf(user_id[p]) # {}
          THEN /\ \E r \in LastSessionsOf(user_id[p]) :
                     session_id' = [session_id EXCEPT ![p] = sessions[r].session_id]
               /\ UNCHANGED nUuid
          ELSE /\ session_id' = [session_id EXCEPT ![p] = FreshSessionId]
               /\ nUuid' = nUuid + 1
    /\ Goto(p, "find_session")
    /\ UNCHANGED <<users, sessions, nUser, nSession, now, chat_request, user_id, session,
                   notifs, history, response, adminVars, toolVars>>

\* 4) Fetch or create session: the find_unique and the branch on its result
ChatFindSession(p) ==
    /\ pc[p] = "find_session"
    /\ IF SessionsWithId(session_id[p]) = {}
          THEN /\ session' = [session EXCEPT ![p] = NoSession]
               /\ Goto(p, "create_session")
          ELSE \E r \in SessionsWithId(session_id[p]) :
                  /\ session' = [session EXCEPT ![p] = Row(r)]
                  /\ Goto(p, IF sessions[r].user_id # user_id[p] THEN "reassign" ELSE "agent")
    /\ UNCHANGED <<storeVars, chat_request, user_id, session_id, notifs, history, response,
                   adminVars, toolVars>>

\* the history a new session is seeded with
SeedHistory == <<SeedMessage>>

\* prisma.chatsession.create: the unique session_id taken raises, outside the try
ChatCreateSession(p) ==
    /\ pc[p] = "create_session"
    /\ IF SessionsWithId(session_id[p]) # {}
          THEN /\ Goto(p, "done")
               /\ Respond(p, 500)
               /\ UNCHANGED <<sessions, nSession, now, session>>
          ELSE /\ \E t \in ClockReadings :
                     /\ sessions' = Put(sessions, nSession + 1,
                                        [session_id |-> session_id[p], user_id |-> user_id[p],
                                         history |-> SeedHistory, created_at |-> t])
                     /\ now' = t
               /\ nSession' = nSession + 1
               /\ session' = [session EXCEPT ![p] =
                                 [id |-> nSession + 1, session_id |-> session_id[p],
                                  user_id |-> user_id[p], history |-> SeedHistory]]
               /\ Goto(p, "notif_find")
               /\ UNCHANGED response
    /\ UNCHANGED <<users, nUser, nUuid, chat_request, user_id, session_id, notifs, history,
                   adminVars, toolVars>>

\* mutant: an exception of the notification step ends the request
NotificationFatal(p) == Goto(p, "done") /\ Respond(p, 500)

\* except Exception as e: print(...), and the handler goes on to step 5
NotificationFailed(p) == Goto(p, "agent") /\ UNCHANGED response

\* Push notification: the find_unique; a missing user raises inside the try
ChatNotifFind(p) ==
    /\ pc[p] = "notif_find"
    /\ IF user_id[p] \in DOMAIN users
          THEN /\ notifs' = [notifs EXCEPT ![p] = users[user_id[p]].notifications]
               /\ Goto(p, "notif_update")
               /\ UNCHANGED response
          ELSE /\ NotificationFailed(p)
               /\ UNCHANGED notifs
    /\ UNCHANGED <<storeVars, chat_request, user_id, session_id, session, history,
                   adminVars, toolVars>>

\* Push notification: the find_unique or the update raising
ChatNotifRaise(p) ==
    /\ pc[p] \in {"notif_find", "notif_update"}
    /\ NotificationFailed(p)
    /\ UNCHANGED <<storeVars, chat_request, user_id, session_id, session, notifs, history,
                   adminVars, toolVars>>

\* Push notification: the update
ChatNotifUpdate(p) ==
    /\ pc[p] = "notif_update"
    /\ users' = IF user_id[p] \in DOMAIN users
                   THEN [users EXCEPT ![user_id[p]].notifications =
                            Append(notifs[p], [user_id |-> user_id[p]])]
                   ELSE users
    /\ Goto(p, "agent")
    /\ UNCHANGED <<sessions, nUser, nSession, nUuid, now, chat_request, user_id, session_id,
                   session, notifs, history, response, adminVars, toolVars>>

\* mutant: the owner is written back as it was read
KeptOwner(p) == session[p].user_id

\* the owner an existing session is given when its owner is not the resolved user
ReassignedOwner(p) == user_id[p]

\* else-branch: session.user_id != user_id, update the owner
ChatReassign(p) ==
    /\ pc[p] = "reassign"
    /\ sessions' = IF session[p].id \in DOMAIN sessions
                      THEN [sessions EXCEPT ![session[p].id].user_id = ReassignedOwner(p)]
                      ELSE sessions
    /\ Goto(p, "agent")
    /\ UNCHANGED <<users, nUser, nSession, nUuid, now, chat_request, user_id, session_id,
                   session, notifs, history, response, adminVars, toolVars>>

\* 5) Append user message: the local history the agent is given
HistoryWithMessage(p) == Append(session[p].history, UserMessage(p))

\* 6) Invoke agent, the run ending with a final output
ChatAgentReply(p) ==
    /\ pc[p] = "agent"
    /\ history' = [history EXCEPT ![p] = Append(HistoryWithMessage(p), AssistantMessage(p))]
    /\ Goto(p, "persist")
    /\ UNCHANGED <<storeVars, chat_request, user_id, session_id, session, notifs, response,
                   adminVars, toolVars>>

\* 6) Invoke agent, the run raising: except -> HTTPException(500)
ChatAgentRaise(p) ==
    /\ pc[p] = "agent"
    /\ history' = [history EXCEPT ![p] = HistoryWithMessage(p)]
    /\ Goto(p, "done")
    /\ Respond(p, 500)
    /\ UNCHANGED <<storeVars, chat_request, user_id, session_id, session, notifs,
                   adminVars, toolVars>>

\* mutant: the history is written as it was before the reply was appended
HistoryWithoutReply(p) == HistoryWithMessage(p)

\* what step 7 writes into the session's history column
PersistedHistory(p) == history[p]

\* 7) Append assistant reply & update session; 8) Return response
ChatPersist(p) ==
    /\ pc[p] = "persist"
    /\ sessions' = IF session[p].id \in DOMAIN sessions
                      THEN [sessions EXCEPT ![session[p].id].history = PersistedHistory(p)]
                      ELSE sessions
    /\ Goto(p, "done")
    /\ Respond(p, 200)
    /\ UNCHANGED <<users, nUser, nSession, nUuid, now, chat_request, user_id, session_id,
                   session, notifs, history, adminVars, toolVars>>

handle_chat_message(p) ==
    \/ ChatVerifyUser(p)
    \/ ChatCreateAnon(p)
    \/ ChatFindLast(p)
    \/ ChatFindSession(p)
    \/ ChatCreateSession(p)
    \/ ChatNotifFind(p)
    \/ ChatNotifRaise(p)
    \/ ChatNotifUpdate(p)
    \/ ChatReassign(p)
    \/ ChatAgentReply(p)
    \/ ChatAgentRaise(p)
    \/ ChatPersist(p)


\* ------------------------------------------------------- session endpoints

\* GET /sessions/{session_id}: the answer, read-only
get_session_history(sid) ==
    IF SessionsWithId(sid) = {}
       THEN [status |-> 404, history |-> << >>]
       ELSE LET r == CHOOSE x \in SessionsWithId(sid) : TRUE
            IN  [status |-> 200, history |-> sessions[r].history]

Admin(op, code) ==
    /\ adminOps < MaxAdminOps
    /\ adminOps' = adminOps + 1
    /\ last' = [op |-> op, status |-> code]

\* DELETE /sessions/{session_id}
delete_session ==
    \E sid \in SessionIdInputs \ {NoId} :
       /\ sessions' = Drop(sessions, SessionsWithId(sid))
       /\ Admin("delete_session", IF SessionsWithId(sid) = {} THEN 404 ELSE 200)
       /\ UNCHANGED <<users, nUser, nSession, nUuid, now, chatVars, toolVars>>

\* DELETE /users/{user_id}/sessions
delete_sessions_by_user ==
    \E uid \in UserIdInputs \ {NoId} :
       /\ sessions' = Drop(sessions, {r \in DOMAIN sessions : sessions[r].user_id = uid})
       /\ Admin("delete_sessions_by_user", 200)
       /\ UNCHANGED <<users, nUser, nSession, nUuid, now, chatVars, toolVars>>

\* ---------------------------------------------------------- user endpoints

Emails == {<<"e", 1>>, <<"e", 2>>}

\* POST /users: the password column of the row created
CreatedPassword(password) == Hash(password)

\* POST /users
create_user ==
    \E email \in Emails, password \in Plaintexts :
       IF EmailTaken(email)
          THEN /\ Admin("create_user", 500)
               /\ UNCHANGED <<storeVars, chatVars, toolVars>>
          ELSE /\ \E t \in ClockReadings :
                     /\ users' = Put(users, UserId(nUser + 1),
                                     NewUser(email, CreatedPassword(password), t))
                     /\ now' = t
               /\ nUser' = nUser + 1
               /\ Admin("create_user", 201)
               /\ UNCHANGED <<sessions, nSession, nUuid, chatVars, toolVars>>

valid_fields == {"email", "password", "isSubscribed", "subscription", "freePlanUsage",
                 "role", "paymentStatus", "plan", "agentSessions", "notifications"}

\* the bodies clients send to PUT /users/{user_id}
Bodies == {[foo |-> "bar"],
           [foo |-> "bar", bar |-> "baz"],
           [password |-> <<"pw", 2>>],
           [role |-> "user", foo |-> "bar"],
           [email |-> <<"e", 2>>, plan |-> "pro"],
           [notifications |-> <<[user_id |-> BogusUser]>>, isSubscribed |-> TRUE,
            updatedAt |-> "never"]}

\* mutant: every key of the body is written
AllKeys(up) == DOMAIN up

\* the keys of a body that update_user keeps
KeptKeys(up) == DOMAIN up \cap valid_fields

\* mutant: the password is written as it was sent
RawValue(key, value) == value

\* the value update_user writes for a kept key
CleanValue(key, value) == IF key = "password" THEN Hash(value) ELSE value

\* Build a clean dict of only the valid fields; always update the timestamp
CleanData(up, t) ==
    [key \in KeptKeys(up) \cup {"updatedAt"} |->
        IF key = "updatedAt" THEN t ELSE CleanValue(key, up[key])]

\* a row with the columns of data written
Written(row, data) ==
    [k \in DOMAIN row \cup DOMAIN data |-> IF k \in DOMAIN data THEN data[k] ELSE row[k]]

\* PUT /users/{user_id}, the body up sent for user uid
UpdateUser(uid, up) ==
    \E t \in ClockReadings :
       LET data == CleanData(up, t)
           clash == /\ "email" \in DOMAIN data
                    /\ \E u \in DOMAIN users \ {uid} : users[u].email = data["email"]
       IN  /\ now' = t
           /\ IF uid \notin DOMAIN users
                 THEN /\ Admin("update_user", 404)
                      /\ UNCHANGED users
                 ELSE IF clash
                 THEN /\ Admin("update_user", 500)
                      /\ UNCHANGED users
                 ELSE /\ users' = [users EXCEPT ![uid] = Written(@, data)]
                      /\ Admin("update_user", 200)
           /\ UNCHANGED <<sessions, nUser, nSession, nUuid, chatVars, toolVars>>

update_user == \E uid \in UserIdInputs \ {NoId}, up \in Bodies : UpdateUser(uid, up)

\* DELETE /users/{user_id}
delete_user ==
    \E uid \in UserIdInputs \ {NoId} :
       /\ users' = Drop(users, {uid})
       /\ Admin("delete_user", IF uid \in DOMAIN users THEN 200 ELSE 404)
       /\ UNCHANGED <<sessions, nUser, nSession, nUuid, now, chatVars, toolVars>>

\* ------------------------------------------------- tools (agent_core.py)

\* a tool invocation ends by returning a value or by raising
Returned(value) == [outcome |-> "returned", value |-> value]
Raised(error) == [outcome |-> "raised", error |-> error]

\* what the agent may pass to a research tool
Depths == {5, 10}
TimeLimits == {60, 180, 300}
UrlCounts == {10, 50}
ResearchArgs ==
    [query : {"q"}, max_depth : Depths, time_limit : TimeLimits, max_urls : UrlCounts]

\* what a research tool runs in: whether the firecrawl import succeeded, whether
\* FireCrawl_API_KEY is set, and what the provider's deep_research does
ProviderBehaviours == {"analysis", "no data", "malformed", "raises"}
ResearchEnvs == [firecrawl : BOOLEAN, api_key : BOOLEAN, provider : ProviderBehaviours]

NoProviderCall ==
    [called |-> FALSE, query |-> "", max_depth |-> 0, time_limit |-> 0, max_urls |-> 0]
ProviderCall(query, max_depth, time_limit, max_urls) ==
    [called |-> TRUE, query |-> query, max_depth |-> max_depth,
     time_limit |-> time_limit, max_urls |-> max_urls]

\* firecrawl_app.deep_research(...) as research_topic calls it
research_topic_call(args) == ProviderCall(args.query, 5, 180, 10)
\* ... as deep_research calls it
deep_research_call(args) == ProviderCall(args.query, 10, 300, 50)
\* ... as get_financial_data calls it
get_financial_data_call(args) == ProviderCall(args.query, 10, 300, 50)

\* the guards before the provider call: is the provider reached
ReachesProvider(env) == env.firecrawl /\ env.api_key

\* mutant: the provider's exception leaves the tool
Propagated(e) == Raised(e)

\* except Exception as e: the dict returned for a provider call that raised
ProviderFailure(e) ==
    Returned([error |-> e, success |-> FALSE, final_analysis |-> "Deep research failed.",
              sources_count |-> 0, sources |-> << >>])

\* what a research tool returns: the guards, the provider call, the except
ResearchResult(env) ==
    IF ~env.firecrawl
       THEN Returned([error |-> "Deep research tool dependency missing.", success |-> FALSE])
    ELSE IF ~env.api_key
       THEN Returned([error |-> "FireCrawl API key not configured.", success |-> FALSE])
    ELSE CASE env.provider = "raises" -> ProviderFailure("provider error")
           [] env.provider = "malformed" ->
                 ProviderFailure("'NoneType' object has no attribute 'get'")
           [] env.provider = "no data" ->
                 Returned([success |-> TRUE, final_analysis |-> "No analysis found.",
                           sources_count |-> 0, sources |-> << >>])
           [] OTHER ->
                 Returned([success |-> TRUE, final_analysis |-> "analysis",
                           sources_count |-> 1, sources |-> <<"source">>])

\* the three research tools: the same body, each with its own provider call
research_topic ==
    \E args \in ResearchArgs, env \in ResearchEnvs :
       /\ toolCall' = [tool |-> "research_topic", args |-> args, env |-> env]
       /\ providerArgs' = IF ReachesProvider(env) THEN research_topic_call(args)
                                                  ELSE NoProviderCall
       /\ toolResult' = ResearchResult(env)
       /\ UNCHANGED <<storeVars, chatVars, adminVars>>

deep_research ==
    \E args \in ResearchArgs, env \in ResearchEnvs :
       /\ toolCall' = [tool |-> "deep_research", args |-> args, env |-> env]
       /\ providerArgs' = IF ReachesProvider(env) THEN deep_research_call(args)
                                                  ELSE NoProviderCall
       /\ toolResult' = ResearchResult(env)
       /\ UNCHANGED <<storeVars, chatVars, adminVars>>

get_financial_data ==
    \E args \in ResearchArgs, env \in ResearchEnvs :
       /\ toolCall' = [tool |-> "get_financial_data", args |-> args, env |-> env]
       /\ providerArgs' = IF ReachesProvider(env) THEN get_financial_data_call(args)
                                                  ELSE NoProviderCall
       /\ toolResult' = ResearchResult(env)
       /\ UNCHANGED <<storeVars, chatVars, adminVars>>

\* the names pytz.timezone accepts, among those the agent may pass
Timezones == {"Asia/Karachi", "Asia/Tokyo", "Pakistan", "Mars/Crater"}
KnownTimezones == {"Asia/Karachi", "Asia/Tokyo"}

\* a Python string, as the pieces it is formatted from
Contains(str, piece) == \E i \in 1 .. Len(str) : str[i] = piece

\* except pytz.UnknownTimeZoneError: the string returned
UnknownTimezone(country_tz) ==
    Returned(<<"Error: ", "Unknown timezone", " '", country_tz,
               "'. Please provide a valid timezone name">>)

\* get_current_time_in_country; fault: datetime.now or strftime raises
TimeResult(country_tz, fault) ==
    IF country_tz \notin KnownTimezones THEN UnknownTimezone(country_tz)
    ELSE IF fault THEN Returned(<<"Error getting time: ", "fault">>)
    ELSE Returned(<<"%Y-%m-%d %H:%M:%S", country_tz>>)

get_current_time_in_country ==
    \E country_tz \in Timezones, fault \in BOOLEAN :
       /\ toolCall' = [tool |-> "get_current_time_in_country",
                       args |-> [country_tz |-> country_tz], env |-> [fault |-> fault]]
       /\ providerArgs' = NoProviderCall
       /\ toolResult' = TimeResult(country_tz, fault)
       /\ UNCHANGED <<storeVars, chatVars, adminVars>>

\* ------------------------------------------------------------ specification

\* The store after one user has signed up and has had one turn of chat, sent
\* with the user_id and no session_id: the session is named by the server, the
\* user has the notification of its creation.  Time 0 is the past.
InitHistory == <<SeedMessage, UserMessage(0), AssistantMessage(0)>>
InitUser == [NewUser(<<"e", 1>>, Hash(<<"pw", 1>>), 0)
                EXCEPT !.notifications = <<[user_id |-> UserId(1)]>>]

InitStore ==
    /\ users = (UserId(1) :> InitUser)
    /\ sessions = (1 :> [session_id |-> Uuid(1), user_id |-> UserId(1),
                         history |-> InitHistory, created_at |-> 0])
    /\ nUser = 1
    /\ nSession = 1
    /\ nUuid = 1
    /\ now = 0

InitChat ==
    /\ pc = [p \in Reqs |-> "idle"]
    /\ chat_request = [p \in Reqs |-> [session_id |-> NoId, user_id |-> NoId]]
    /\ user_id = [p \in Reqs |-> NoId]
    /\ session_id = [p \in Reqs |-> NoId]
    /\ session = [p \in Reqs |-> NoSession]
    /\ notifs = [p \in Reqs |-> << >>]
    /\ history = [p \in Reqs |-> << >>]
    /\ response = [p \in Reqs |-> 0]

InitAdmin ==
    /\ adminOps = 0
    /\ last = [op |-> "none", status |-> 0]

InitTools ==
    /\ toolCall = [tool |-> "none"]
    /\ providerArgs = NoProviderCall
    /\ toolResult = [outcome |-> "none"]

Init == InitStore /\ InitChat /\ InitAdmin /\ InitTools

\* concurrent chat requests, with calls of the endpoints that delete sessions and users
Next ==
    \/ \E p \in Reqs : handle_chat_message(p)
    \/ delete_session
    \/ delete_sessions_by_user
    \/ delete_user

Spec == Init /\ [][Next]_vars

\* the user endpoints, with a chat request in flight
NextUsers ==
    \/ handle_chat_message(1)
    \/ create_user
    \/ update_user
    \/ delete_user

SpecUsers == Init /\ [][NextUsers]_vars

\* the tools, invoked by the agents
NextTools ==
    \/ research_topic
    \/ deep_research
    \/ get_financial_data
    \/ get_current_time_in_country

SpecTools == Init /\ [][NextTools]_vars


\* ==================================================================== claims

\* number of entries of h equal to m
Count(h, m) == Cardinality({i \in 1 .. Len(h) : h[i] = m})
Last(h) == h[Len(h)]
\* the requests that got hold of the session row r
Holding(r) == {p \in Reqs : pc[p] # "idle" /\ session[p].id = r}

\* C1: once the N requests sent to the session that exists from the start have
\* all returned 200, its stored history is the initial history followed by N
\* user messages and N replies, each request's message and reply exactly once.
C1_ConcurrentAppendsKept ==
    \A r \in DOMAIN sessions :
       (/\ sessions[r].created_at = 0
        /\ \A p \in Reqs : pc[p] \in {"idle", "done"}
        /\ \A p \in Holding(r) : response[p] = 200)
       => LET h == sessions[r].history
          IN  /\ Len(h) = Len(InitHistory) + 2 * Cardinality(Holding(r))
              /\ SubSeq(h, 1, Len(InitHistory)) = InitHistory
              /\ \A p \in Holding(r) :
                    Count(h, UserMessage(p)) = 1 /\ Count(h, AssistantMessage(p)) = 1

\* C2: when the agent invocation raises, the request is answered 500 and the
\* session's stored history ends with the request's user message.
C2_UserMessagePersisted ==
    [][\A p \in Reqs :
          ChatAgentRaise(p) =>
             /\ response'[p] = 500
             /\ session[p].id \in DOMAIN sessions
                   => Last(sessions'[session[p].id].history) = UserMessage(p)]_vars

\* C6: a session_id is held by at most one session row, and a request is
\* answered 500 only when its agent invocation raised: losing the race to
\* create a session is not surfaced to the client.
C6_CreateRaceHidden ==
    /\ \A r1, r2 \in DOMAIN sessions :
          sessions[r1].session_id = sessions[r2].session_id => r1 = r2
    /\ \A p \in Reqs : pc[p] = "done" /\ response[p] = 500 => session[p].id # 0

\* C3 as claimed: whatever the user, after a successful POST /chat sent without
\* a session_id, GET /sessions/{sessionId} returns the seed, the message and the
\* reply, and nothing else.
ThisTurnOnly(p) == <<SeedMessage, UserMessage(p), AssistantMessage(p)>>
C3_RoundTripAnyUser ==
    [][\A p \in Reqs :
          (/\ ChatPersist(p)
           /\ chat_request[p].session_id = NoId
           /\ session[p].id \in DOMAIN sessions)
          => get_session_history(session_id[p])' = [status |-> 200, history |-> ThisTurnOnly(p)]]_vars

\* C3 as amended: that holds of a request sent without a session_id that does
\* not resume a session with earlier turns.  A request whose user owns no session
\* draws a fresh session id (always so when it supplied no existing user_id) and
\* creates its session with the seed alone; a request holding a session with the
\* seed alone stores the seed, its message and the reply.
C3_RoundTripNewSession ==
    [][\A p \in Reqs :
          /\ (ChatFindLast(p) /\ chat_request[p].user_id # user_id[p])
                => LastSessionsOf(user_id[p]) = {}
          /\ (ChatFindLast(p) /\ LastSessionsOf(user_id[p]) = {})
                => SessionsWithId(session_id'[p]) = {}
          /\ (ChatCreateSession(p) /\ response'[p] # 500)
                => /\ session'[p].history = <<SeedMessage>>
                   /\ sessions'[session'[p].id].history = <<SeedMessage>>
          /\ (/\ ChatPersist(p)
              /\ chat_request[p].session_id = NoId
              /\ session[p].id \in DOMAIN sessions
              /\ session[p].history = <<SeedMessage>>)
                => get_session_history(session_id[p])'
                      = [status |-> 200, history |-> ThisTurnOnly(p)]]_vars

C3_Witness ==
    \E p \in Reqs :
       /\ pc[p] = "done" /\ response[p] = 200
       /\ chat_request[p] = [session_id |-> NoId, user_id |-> NoId]
       /\ get_session_history(session_id[p]) = [status |-> 200, history |-> ThisTurnOnly(p)]

\* a request sent with neither user_id nor session_id
Anon(p) == pc[p] # "idle" /\ chat_request[p] = [session_id |-> NoId, user_id |-> NoId]

\* C4: a request sent with neither user_id nor session_id creates one user (at
\* step 2) and one session (at step 4), under a fresh session id and owned by
\* that user, and nothing else; it never fails on the create; two such
\* requests have different users and different sessions, and no step of one
\* changes the session of the other.
C4_AnonymousProvisioning ==
    [][\A p \in Reqs :
          (Anon(p)' /\ pc'[p] # pc[p]) =>
             /\ DOMAIN users' \ DOMAIN users
                   = IF pc[p] = "create_anon" THEN {user_id'[p]} ELSE {}
             /\ DOMAIN sessions' \ DOMAIN sessions
                   = IF pc[p] = "create_session" THEN {session'[p].id} ELSE {}
             /\ pc[p] = "idle" => pc'[p] = "create_anon"
             /\ pc[p] = "create_anon" => user_id'[p] \notin DOMAIN users
             /\ pc[p] = "find_last" => SessionsWithId(session_id'[p]) = {}
             /\ pc[p] = "find_session" => pc'[p] = "create_session"
             /\ pc[p] = "create_session"
                   => /\ pc'[p] = "notif_find"
                      /\ sessions'[session'[p].id].user_id = user_id[p]
                      /\ sessions'[session'[p].id].session_id = session_id[p]
             /\ \A q \in Reqs \ {p} :
                   Anon(q) =>
                      /\ user_id'[p] # NoId => user_id'[p] # user_id[q]
                      /\ session_id'[p] # NoId => session_id'[p] # session_id[q]
                      /\ session[q].id \in DOMAIN sessions
                            => /\ session[q].id \in DOMAIN sessions'
                               /\ sessions'[session[q].id] = sessions[session[q].id]]_vars

C4_Witness ==
    \E p, q \in Reqs :
       /\ p # q /\ Anon(p) /\ Anon(q)
       /\ pc[p] = "done" /\ response[p] = 200 /\ pc[q] = "done" /\ response[q] = 200
       /\ user_id[p] # user_id[q] /\ session[p].id # session[q].id
       /\ {user_id[p], user_id[q]} \subseteq DOMAIN users
       /\ {session[p].id, session[q].id} \subseteq DOMAIN sessions

C8_PasswordsHashed == \A u \in DOMAIN users : IsHash(users[u].password)

C8_Witness ==
    /\ last = [op |-> "update_user", status |-> 200]
    /\ \E u \in DOMAIN users : users[u].password = Hash(<<"pw", 2>>)
    /\ \E u \in DOMAIN users : users[u].email = AnonEmail(nUser)

\* C9: PUT /users/{user_id} never writes a key that is not a field of User and
\* changes no other user, no session and no field the body does not name,
\* updatedAt apart; with a body of unrecognized keys alone, sent for an existing
\* user, it answers 200 and changes nothing of that user but updatedAt.
C9_UnknownKeysDropped ==
    [][\A uid \in UserIdInputs \ {NoId}, up \in Bodies :
          UpdateUser(uid, up) =>
             /\ DOMAIN users' = DOMAIN users
             /\ sessions' = sessions
             /\ \A u \in DOMAIN users :
                   /\ DOMAIN users'[u] = UserFields
                   /\ u # uid => users'[u] = users[u]
                   /\ \A k \in UserFields \ (DOMAIN up \cup {"updatedAt"}) :
                         users'[u][k] = users[u][k]
             /\ (uid \in DOMAIN users /\ DOMAIN up \cap valid_fields = {})
                   => /\ last' = [op |-> "update_user", status |-> 200]
                      /\ users' = [users EXCEPT ![uid].updatedAt = now']]_vars

C9_Witness ==
    /\ last = [op |-> "update_user", status |-> 200]
    /\ \E u \in DOMAIN users :
          /\ users[u].updatedAt = now /\ users[u].updatedAt > users[u].createdAt
          /\ users[u] = [InitUser EXCEPT !.updatedAt = now]

ResearchTools == {"research_topic", "deep_research", "get_financial_data"}

\* C5: every tool invocation returns; a research tool whose dependency or API
\* key is missing, or whose provider call fails, returns a dict with
\* success false and an error; get_current_time_in_country given a name that
\* is no timezone returns a string containing "Unknown timezone".
C5_ToolsNeverRaise ==
    toolCall.tool # "none" =>
       /\ toolResult.outcome = "returned"
       /\ (/\ toolCall.tool \in ResearchTools
           /\ \/ ~toolCall.env.firecrawl
              \/ ~toolCall.env.api_key
              \/ toolCall.env.provider \in {"raises", "malformed"})
             => /\ {"success", "error"} \subseteq DOMAIN toolResult.value
                /\ toolResult.value.success = FALSE
       /\ (/\ toolCall.tool = "get_current_time_in_country"
           /\ toolCall.args.country_tz \notin KnownTimezones)
             => Contains(toolResult.value, "Unknown timezone")

C5_Witness ==
    /\ toolCall.tool = "deep_research"
    /\ toolCall.env = [firecrawl |-> TRUE, api_key |-> TRUE, provider |-> "raises"]
    /\ toolResult.outcome = "returned"
    /\ toolResult.value.success = FALSE

\* C10: the research provider is called with the max_depth, time_limit and
\* max_urls the caller gave the tool.
C10_CallerArgsPassed ==
    providerArgs.called =>
       providerArgs = ProviderCall(toolCall.args.query, toolCall.args.max_depth,
                                   toolCall.args.time_limit, toolCall.args.max_urls)

\* the sessions a user owns
OwnedBy(uid) == {r \in DOMAIN sessions : sessions[r].user_id = uid}

SeedThenPairs(h) ==
    /\ Len(h) % 2 = 1
    /\ h[1] = SeedMessage
    /\ \A i \in 1 .. (Len(h) - 1) \div 2 :
          \E t \in 0 .. NumReq : h[2 * i] = UserMessage(t) /\ h[2 * i + 1] = AssistantMessage(t)

\* C12: every stored history is the seed followed by whole (user message,
\* reply) pairs.  A row is created with the seed alone; the history of a stored
\* row changes only at step 7 of a request, which writes the history the
\* request read followed by its message and its reply together; a request whose
\* agent raises writes no history.
C12_WholeTurnsStored ==
    /\ [](\A r \in DOMAIN sessions : SeedThenPairs(sessions[r].history))
    /\ [][/\ \A r \in DOMAIN sessions' \ DOMAIN sessions :
                sessions'[r].history = <<SeedMessage>>
          /\ \A r \in DOMAIN sessions' \cap DOMAIN sessions :
                sessions'[r].history # sessions[r].history
                   => \E p \in Reqs :
                         /\ ChatPersist(p)
                         /\ session[p].id = r
                         /\ sessions'[r].history
                               = session[p].history \o <<UserMessage(p), AssistantMessage(p)>>
          /\ \A p \in Reqs : ChatAgentRaise(p) => sessions' = sessions]_vars

\* one request's agent has raised and another's turn is stored whole in the
\* session both hold
C12_Witness ==
    \E p, q \in Reqs :
       /\ pc[p] = "done" /\ response[p] = 500 /\ session[p].id # 0
       /\ pc[q] = "done" /\ response[q] = 200 /\ session[q].id = session[p].id
       /\ session[q].id \in DOMAIN sessions
       /\ Len(sessions[session[q].id].history) >= 5
       /\ Last(sessions[session[q].id].history) = AssistantMessage(q)

\* the notifications column of every stored user
Notifications == [u \in DOMAIN users |-> users[u].notifications]

\* C13: the notification step is entered only by the request that has just
\* created its session.  Whatever happens in it (the owner found or deleted
\* meanwhile, a call raising) the request is not answered and goes on, to the
\* update or to the agent step, holding the session it created; the agent is
\* given the session's history with the user message appended, and the reply
\* is persisted and answered 200.  A request is answered 500 only by a lost
\* create or by the agent raising.  A request that found its session never
\* enters the notification step, and notifications are written by nothing
\* else in POST /chat.
C13_NotificationNotFatal ==
    [][\A p \in Reqs :
          /\ pc'[p] = "notif_find" /\ pc[p] # "notif_find"
                => /\ ChatCreateSession(p)
                   /\ session'[p].id \in DOMAIN sessions' \ DOMAIN sessions
          /\ pc'[p] = "notif_update" /\ pc[p] # "notif_update"
                => pc[p] = "notif_find" /\ user_id[p] \in DOMAIN users
          /\ (pc[p] \in {"notif_find", "notif_update"} /\ pc'[p] # pc[p])
                => /\ pc'[p] \in {"notif_update", "agent"}
                   /\ response'[p] = 0
                   /\ session'[p] = session[p]
                   /\ sessions' = sessions
          /\ (ChatNotifFind(p) /\ user_id[p] \notin DOMAIN users)
                => pc'[p] = "agent" /\ users' = users
          /\ (ChatNotifUpdate(p) /\ user_id[p] \notin DOMAIN users)
                => pc'[p] = "agent" /\ users' = users
          /\ ChatNotifRaise(p) => pc'[p] = "agent" /\ users' = users
          /\ (pc[p] = "agent" /\ pc'[p] # pc[p])
                => \/ /\ pc'[p] = "persist"
                      /\ history'[p] = session[p].history
                                          \o <<UserMessage(p), AssistantMessage(p)>>
                   \/ ChatAgentRaise(p)
          /\ (ChatPersist(p) /\ session[p].id \in DOMAIN sessions)
                => /\ response'[p] = 200
                   /\ Last(sessions'[session[p].id].history) = AssistantMessage(p)
          /\ (response'[p] = 500 /\ response[p] # 500)
                => pc[p] \in {"create_session", "agent"}
          /\ (ChatFindSession(p) /\ session'[p].id # 0)
                => pc'[p] \notin {"create_session", "notif_find", "notif_update"}
          /\ (pc'[p] # pc[p] /\ pc[p] # "notif_update")
                => \A u \in DOMAIN users \cap DOMAIN users' :
                      Notifications'[u] = Notifications[u]]_vars

\* a request of the stored user, who has notifications, created a session; its
\* notification step ended without the owner's row (the lookup raised or the
\* owner was gone), the owner is deleted, and the turn is stored and answered
\* 200 all the same
C13_Witness ==
    \E p \in Reqs :
       /\ pc[p] = "done" /\ response[p] = 200
       /\ chat_request[p].user_id = UserId(1)
       /\ UserId(1) \notin DOMAIN users
       /\ notifs[p] = << >>
       /\ session[p].id \in DOMAIN sessions
       /\ session[p].history = SeedHistory
       /\ sessions[session[p].id].history = ThisTurnOnly(p)

\* C14: every notification update of POST /chat that writes leaves the user's
\* stored notifications as they were, in order, followed by one new entry, so
\* k requests creating sessions for a user add exactly k entries and lose none.
C14_NotificationsOnlyGrow ==
    [][\A p \in Reqs :
          (ChatNotifUpdate(p) /\ user_id[p] \in DOMAIN users)
             => Notifications'[user_id[p]]
                   = Append(Notifications[user_id[p]], [user_id |-> user_id[p]])]_vars

=============================================================================
